---------------------------- MODULE Spec2Model ----------------------------
(***************************************************************************)
(* gke-mcp: the kubernetes changelog filter (pkg/tools/k8schangelog) and   *)
(* the GKE release-notes extractor (gkereleasenotes).                      *)
(*                                                                         *)
(* Texts are TLA+ strings; a line feed is the one-character string "\n".   *)
(***************************************************************************)
EXTENDS Integers, Sequences, FiniteSets, TLC

\* Every changelog of up to MaxLines lines over LinePool is filtered
\* (strings.Split never returns fewer than one line), and the longer
\* changelogs of Scenarios.
MaxLines == 3

\* The lines changelogs are made of: list and blank lines, headings of the
\* first three levels, both ignored-subsection headers, and version-like
\* headings in four spellings.
LinePool ==
    { "", "- bar",
      "# v1.2.3", "# v10.0.0", "# 1.2.3", "#v1.2.3",
      "## Changes", "### foo",
      "## Dependencies", "## Downloads for v1.2.3" }

VARIABLES
    changelog,                     \* the argument of keepOnlyChanges
    lines,                         \* strings.Split(changelog, "\n")
    idx,                           \* position of the range loop in lines
    hasMetTheFirstVersionHeading,
    isInIgnoredSection,
    result,                        \* the strings.Builder, as its content
    emitted,                       \* history: the positions of the lines written
    pc,                            \* "loop" while ranging, "done" once returned
    \* getGkeReleaseNotes: the parsed document and the text built from it
    parent,                        \* doc: each element's parent, in document order
    dataText,                      \* doc: each element's data-text attribute
    classes,                       \* doc: each element's class names
    ownText,                       \* doc: each element's own text node
    removed,                       \* doc: the elements Remove() has detached
    notes,                         \* the strings.Builder, as its content
    written,                       \* history: the elements whose text node was written
    notesPc,                       \* the statement getGkeReleaseNotes is at
    \* concurrent calls of keepOnlyChanges
    calls,                         \* each caller's own locals, as a record
    \* the tool handlers getK8sChangelog and getGkeReleaseNotes
    tool,                          \* the handler called: "k8s", "gke" or "none"
    toolArg,                       \* args.KubernetesMinorVersion
    fetched,                       \* the command run and what Output() returned
    parseErr,                      \* the error of goquery.NewDocumentFromReader
    toolPc,                        \* the statement the handler is at
    toolErr,                       \* the error the handler returned, "nil" if none
    toolContent                    \* the text of the result returned, << >> if nil

changelogVars == << changelog, lines, idx, hasMetTheFirstVersionHeading,
                    isInIgnoredSection, result, emitted, pc >>

docVars == << parent, dataText, classes, ownText >>

notesVars == << parent, dataText, classes, ownText, removed, notes, written,
                notesPc >>

toolVars == << tool, toolArg, fetched, parseErr, toolPc, toolErr, toolContent >>

vars == << changelogVars, notesVars, calls, toolVars >>

---------------------------------------------------------------------------
(* Strings *)

\* The character at position i, "" past either end.
Char(s, i) == IF 1 <= i /\ i <= Len(s) THEN SubSeq(s, i, i) ELSE ""

\* strings.HasPrefix
HasPrefix(s, prefix) ==
    /\ Len(prefix) <= Len(s)
    /\ SubSeq(s, 1, Len(prefix)) = prefix

\* The position of the first line feed at or after i, Len(s) + 1 if none.
RECURSIVE LineFeedFrom(_, _)
LineFeedFrom(s, i) ==
    IF i > Len(s) \/ Char(s, i) = "\n" THEN i ELSE LineFeedFrom(s, i + 1)

\* strings.Split(s, "\n") from position i on: one element per line feed, plus one.
RECURSIVE SplitFrom(_, _)
SplitFrom(s, i) ==
    LET feed  == LineFeedFrom(s, i)
        first == SubSeq(s, i, feed - 1)
    IN  IF feed > Len(s) THEN << first >>
        ELSE << first >> \o SplitFrom(s, feed + 1)

SplitLines(s) == SplitFrom(s, 1)

\* The inverse of SplitLines: the lines with a line feed between neighbours.
RECURSIVE JoinLines(_)
JoinLines(ls) ==
    IF Len(ls) = 0 THEN ""
    ELSE IF Len(ls) = 1 THEN ls[1]
    ELSE ls[1] \o "\n" \o JoinLines(Tail(ls))

\* The white space strings.TrimSpace cuts, as far as the arguments tried
\* hold any.
IsSpace(c) == c \in { " ", "\t", "\n", "\r" }

\* The first position at or after i that holds no white space.
RECURSIVE AfterSpaces(_, _)
AfterSpaces(s, i) ==
    IF i <= Len(s) /\ IsSpace(Char(s, i)) THEN AfterSpaces(s, i + 1) ELSE i

\* The last position at or before i that holds no white space, 0 if none.
RECURSIVE BeforeSpaces(_, _)
BeforeSpaces(s, i) ==
    IF i >= 1 /\ IsSpace(Char(s, i)) THEN BeforeSpaces(s, i - 1) ELSE i

\* strings.TrimSpace
TrimSpace(s) ==
    LET first == AfterSpaces(s, 1)
        last  == BeforeSpaces(s, Len(s))
    IN  IF first > last THEN "" ELSE SubSeq(s, first, last)

---------------------------------------------------------------------------
(* The regular expression and the prefix list *)

IsDigit(c) == c \in { "0", "1", "2", "3", "4", "5", "6", "7", "8", "9" }

\* The first position at or after i that holds no digit: what \d+ consumes.
RECURSIVE AfterDigits(_, _)
AfterDigits(s, i) ==
    IF i <= Len(s) /\ IsDigit(Char(s, i)) THEN AfterDigits(s, i + 1) ELSE i

\* Variant: the pattern is not anchored at its end, ^\d+\.\d+ .
kubernetesMinorVersionRegexpOpenEnd(s) ==
    LET majorEnd == AfterDigits(s, 1)
        minorEnd == AfterDigits(s, majorEnd + 1)
    IN  /\ majorEnd > 1
        /\ Char(s, majorEnd) = "."
        /\ minorEnd > majorEnd + 1

\* kubernetesMinorVersionRegexp.MatchString(s), ^\d+\.\d+$ : digits, a
\* dot, digits, and nothing before or after.
kubernetesMinorVersionRegexp(s) ==
    LET majorEnd == AfterDigits(s, 1)
        minorEnd == AfterDigits(s, majorEnd + 1)
    IN  /\ majorEnd > 1
        /\ Char(s, majorEnd) = "."
        /\ minorEnd > majorEnd + 1
        /\ minorEnd = Len(s) + 1

\* Variant: \d+ for the first component, ^# v\d+\.\d+\.\d+ .
changelogVersionLineRegexpAnyMajor(line) ==
    /\ HasPrefix(line, "# v")
    /\ LET majorEnd == AfterDigits(line, 4)
           minorEnd == AfterDigits(line, majorEnd + 1)
       IN  /\ majorEnd > 4
           /\ Char(line, majorEnd) = "."
           /\ minorEnd > majorEnd + 1
           /\ Char(line, minorEnd) = "."
           /\ IsDigit(Char(line, minorEnd + 1))

\* changelogVersionLineRegexp.MatchString(line), ^# v\d\.\d+\.\d+ :
\* "# v", exactly one digit, a dot, digits, a dot, at least one digit.
changelogVersionLineRegexp(line) ==
    /\ HasPrefix(line, "# v")
    /\ IsDigit(Char(line, 4))
    /\ Char(line, 5) = "."
    /\ LET minorEnd == AfterDigits(line, 6)
       IN  /\ minorEnd > 6
           /\ Char(line, minorEnd) = "."
           /\ IsDigit(Char(line, minorEnd + 1))

ignoredSectionPrefixes == << "## Dependencies", "## Downloads for" >>

---------------------------------------------------------------------------
(* The body of the range loop of keepOnlyChanges, one line at a time *)

\* Variant: the first if of the body lets every line through.
MetAfterNoGate(met, line) == TRUE

\* Variant: the flag follows the current line instead of latching.
MetAfterUnlatched(met, line) == changelogVersionLineRegexp(line)

\* hasMetTheFirstVersionHeading after the first if of the body
MetAfter(met, line) == met \/ changelogVersionLineRegexp(line)

\* Variant: only the first prefix of the list is tried.
IsIgnoredSectionHeaderFirstOnly(line) ==
    HasPrefix(line, ignoredSectionPrefixes[1])

\* isIgnoredSectionHeader after the loop over the prefixes
IsIgnoredSectionHeader(line) ==
    \E k \in 1..Len(ignoredSectionPrefixes) :
        HasPrefix(line, ignoredSectionPrefixes[k])

\* Variant: only a heading of the second level leaves an ignored section.
EndsIgnoredSectionSecondLevelOnly(line) == HasPrefix(line, "## ")

\* Variant: a heading of any level leaves an ignored section.
EndsIgnoredSectionAnyLevel(line) == HasPrefix(line, "#")

\* the condition that leaves an ignored section
EndsIgnoredSection(line) == HasPrefix(line, "# ") \/ HasPrefix(line, "## ")

\* Variant: the exit check runs before the prefix check.
IgnoredAfterExitFirst(ign, line) ==
    IF ign /\ (HasPrefix(line, "# ") \/ HasPrefix(line, "## ")) THEN FALSE
    ELSE IF \E k \in 1..Len(ignoredSectionPrefixes) :
                HasPrefix(line, ignoredSectionPrefixes[k]) THEN TRUE
    ELSE ign

\* isInIgnoredSection at the end of a body that passed the first if
IgnoredAfter(ign, line) ==
    IF IsIgnoredSectionHeader(line) THEN TRUE
    ELSE IF ign /\ EndsIgnoredSection(line) THEN FALSE
    ELSE ign

\* Variant: the writes do not depend on the first version heading.
WritesLineUngated(met, ign, line) ==
    /\ ~IsIgnoredSectionHeader(line)
    /\ ~IgnoredAfter(ign, line)

\* whether the body reaches the two WriteString calls
WritesLine(met, ign, line) ==
    /\ MetAfter(met, line)
    /\ ~IsIgnoredSectionHeader(line)
    /\ ~IgnoredAfter(ign, line)

\* Variant: the line is written without its line feed.
WriteLineNoFeed(res, line) == res \o line

\* result.WriteString(line); result.WriteString("\n")
WriteLine(res, line) == res \o line \o "\n"

\* The whole loop from position i on, as a function of the text so far.
RECURSIVE RangeLoop(_, _, _, _, _)
RangeLoop(ls, i, met, ign, res) ==
    IF i > Len(ls) THEN res
    ELSE LET line == ls[i]
             met2 == MetAfter(met, line)
             ign2 == IF met2 THEN IgnoredAfter(ign, line) ELSE ign
             res2 == IF WritesLine(met, ign, line) THEN WriteLine(res, line)
                     ELSE res
         IN  RangeLoop(ls, i + 1, met2, ign2, res2)

\* keepOnlyChanges as a function of its argument
keepOnlyChanges(text) == RangeLoop(SplitLines(text), 1, FALSE, FALSE, "")

---------------------------------------------------------------------------
(* The changelog filter as a state machine *)

\* Longer changelogs: a preamble, two version sections and an ignored
\* subsection; an ignored subsection with a nested heading and a list line;
\* two ignored subsections in a row, the text ending with a line feed; the
\* four spellings of a version-like heading.
Scenarios ==
    { "intro\n# v1.2.3\n## Dependencies\nbump foo\n## Changes\nfix bar\n# v1.2.2\nfix baz",
      "# v1.0.0\n## Dependencies\n### foo\n- bar\n## Changes\nok",
      "# v1.2.3\n## Dependencies\n## Downloads for v1.2.3\n## Changes\n- bar\n",
      "# v10.0.0\n# 1.2.3\n#v1.2.3\n# v1.2.3\n- bar" }

Changelogs ==
    { JoinLines(ls) : ls \in UNION { [1..n -> LinePool] : n \in 1..MaxLines } }
        \cup Scenarios

\* No concurrent calls are running.
CallsIdle == calls = << >>

\* What fetched holds while no command has been run.
NoFetch == [ command |-> << >>, out |-> "", err |-> "nil" ]

\* No tool handler has been called.
ToolsIdle ==
    /\ tool = "none"
    /\ toolArg = ""
    /\ fetched = NoFetch
    /\ parseErr = "nil"
    /\ toolPc = "idle"
    /\ toolErr = "nil"
    /\ toolContent = << >>

\* getGkeReleaseNotes is not running.
NotesIdle ==
    /\ parent = << >>
    /\ dataText = << >>
    /\ classes = << >>
    /\ ownText = << >>
    /\ removed = {}
    /\ notes = ""
    /\ written = << >>
    /\ notesPc = "idle"

Init ==
    /\ NotesIdle
    /\ CallsIdle
    /\ ToolsIdle
    /\ changelog \in Changelogs
    /\ lines = SplitLines(changelog)
    /\ idx = 1
    /\ hasMetTheFirstVersionHeading = FALSE
    /\ isInIgnoredSection = FALSE
    /\ result = ""
    /\ emitted = << >>
    /\ pc = "loop"

\* One iteration of "for _, line := range lines".
ProcessLine ==
    /\ pc = "loop"
    /\ idx <= Len(lines)
    /\ LET line == lines[idx]
           met  == MetAfter(hasMetTheFirstVersionHeading, line)
           w    == WritesLine(hasMetTheFirstVersionHeading, isInIgnoredSection, line)
       IN  /\ hasMetTheFirstVersionHeading' = met
           /\ isInIgnoredSection' =
                  IF met THEN IgnoredAfter(isInIgnoredSection, line)
                  ELSE isInIgnoredSection
           /\ result' = IF w THEN WriteLine(result, line) ELSE result
           /\ emitted' = IF w THEN Append(emitted, idx) ELSE emitted
    /\ idx' = idx + 1
    /\ UNCHANGED << changelog, lines, pc, notesVars, calls, toolVars >>

\* Variant: the function may return before the range is exhausted.
ReturnEarly ==
    /\ pc = "loop"
    /\ pc' = "done"
    /\ UNCHANGED << changelog, lines, idx, hasMetTheFirstVersionHeading,
                    isInIgnoredSection, result, emitted, notesVars, calls, toolVars >>

\* "return result.String()" once the range is exhausted.
Return ==
    /\ pc = "loop"
    /\ idx > Len(lines)
    /\ pc' = "done"
    /\ UNCHANGED << changelog, lines, idx, hasMetTheFirstVersionHeading,
                    isInIgnoredSection, result, emitted, notesVars, calls, toolVars >>

Next == ProcessLine \/ Return

Spec == Init /\ [][Next]_vars

\* The loop is sequential code that waits for nothing: whenever a step is
\* possible it is taken.
SpecFair == Spec /\ WF_vars(Next)

---------------------------------------------------------------------------
(* The release-notes document *)

\* Every ordered tree of up to MaxNodes elements with every marking of its
\* elements by AttrKinds is extracted from, and the larger documents of
\* ScenarioDocs.
MaxNodes == 4

\* The parent of the root element: the document node, which is no element.
DocumentNode == 0

\* Whether a is d or an ancestor of d in the tree p.
RECURSIVE IsAncestorOrSelf(_, _, _)
IsAncestorOrSelf(p, a, d) ==
    IF a = d THEN TRUE
    ELSE IF d = DocumentNode \/ p[d] = DocumentNode THEN FALSE
    ELSE IsAncestorOrSelf(p, a, p[d])

\* The ordered trees of n elements, numbered in document order: element 1 is
\* the root (html) and every other element hangs under its predecessor or
\* under one of its predecessor's ancestors.
TreesOf(n) ==
    { p \in [1..n -> 0..(n - 1)] :
        /\ p[1] = DocumentNode
        /\ \A k \in 2..n : p[k] \in 1..(k - 1) /\ IsAncestorOrSelf(p, p[k], k - 1) }

\* What an element of a tried tree is: a plain element, a release block, or
\* an anchor of one of the two rules ("" stands for an absent attribute,
\* which no $= selector matches).
AttrKinds ==
    { [dataText |-> "", classes |-> {}],
      [dataText |-> "", classes |-> { "releases" }],
      [dataText |-> "Version updates", classes |-> {}],
      [dataText |-> "Security updates", classes |-> {}] }

\* The text node of element n.
Token(n) == "t" \o ToString(n)

\* Larger documents: two release blocks, one of them the parent-of-parent of
\* a "Version updates" anchor that is a release block too; data-text values
\* that end, or only begin,
\* with the suffixes; a "Security updates" anchor that is the parent-of-parent
\* of a "Version updates" anchor and holds a second "Security updates"
\* anchor, inside a release block; a "Version updates"
\* anchor right under the root beside a deeper one and a deep "Security
\* updates" anchor, in a root that is a release block.
ScenarioDocs ==
    { [ parent   |-> << 0, 1, 2, 3, 4, 2 >>,
        dataText |-> << "", "", "", "", "Version updates", "" >>,
        classes  |-> << {}, {}, { "releases" }, {}, { "releases" },
                        { "releases" } >> ],
      [ parent   |-> << 0, 1, 2, 3, 2, 5, 6 >>,
        dataText |-> << "", "", "", "Version updates (old)", "", "",
                        "GKE Security updates" >>,
        classes  |-> << {}, { "releases" }, { "releases" }, {},
                        { "releases", "devsite" }, {}, {} >> ],
      [ parent   |-> << 0, 1, 2, 3, 4, 5, 6 >>,
        dataText |-> << "", "", "", "Security updates", "", "Version updates",
                        "Security updates" >>,
        classes  |-> << {}, {}, { "releases" }, {}, {}, {}, {} >> ],
      [ parent   |-> << 0, 1, 1, 3, 4, 5, 3, 7 >>,
        dataText |-> << "", "Version updates", "", "", "", "Version updates",
                        "", "Security updates" >>,
        classes  |-> << { "releases" }, {}, {}, {}, {}, {}, {}, {} >> ] }

Docs ==
    { [ parent   |-> p,
        dataText |-> [n \in DOMAIN p |-> k[n].dataText],
        classes  |-> [n \in DOMAIN p |-> k[n].classes] ] :
        p \in UNION { TreesOf(n) : n \in 1..MaxNodes }, k \in [1..MaxNodes -> AttrKinds] }
        \cup ScenarioDocs

Nodes == DOMAIN parent

---------------------------------------------------------------------------
(* goquery, on the document (parent, dataText, classes, ownText, removed) *)

\* strings.HasSuffix, the test of an attribute selector [a$="suffix"]
HasSuffix(s, suffix) ==
    /\ Len(suffix) <= Len(s)
    /\ SubSeq(s, Len(s) - Len(suffix) + 1, Len(s)) = suffix

\* Whether element n is still reachable from the document node once the
\* elements of rem are detached.
RECURSIVE Attached(_, _)
Attached(rem, n) ==
    IF n = DocumentNode THEN TRUE
    ELSE IF n \in rem THEN FALSE
    ELSE Attached(rem, parent[n])

\* Whether m is n or a descendant of n, through links Remove() has not cut.
RECURSIVE InSubtree(_, _, _)
InSubtree(rem, m, n) ==
    IF m = n THEN TRUE
    ELSE IF m = DocumentNode \/ m \in rem THEN FALSE
    ELSE InSubtree(rem, parent[m], n)

\* Variant: the attribute selector also finds elements Remove() has detached.
FindDataTextSuffixDetachedToo(rem, suffix) ==
    { n \in Nodes : dataText[n] # "" /\ HasSuffix(dataText[n], suffix) }

\* doc.Find("[data-text$=\"suffix\"]"): the matching elements of the document
FindDataTextSuffix(rem, suffix) ==
    { n \in Nodes : Attached(rem, n) /\ dataText[n] # "" /\ HasSuffix(dataText[n], suffix) }

\* Variant: the class selector finds no release block inside another one.
FindOutermostReleases(rem) ==
    { n \in Nodes :
        /\ Attached(rem, n) /\ "releases" \in classes[n]
        /\ \A a \in Nodes :
               (a # n /\ "releases" \in classes[a]) => ~IsAncestorOrSelf(parent, a, n) }

\* Variant: the class selector also finds elements Remove() has detached.
FindReleasesDetachedToo(rem) ==
    { n \in Nodes : "releases" \in classes[n] }

\* doc.Find(".releases"): the matching elements of the document
FindReleases(rem) ==
    { n \in Nodes : Attached(rem, n) /\ "releases" \in classes[n] }

\* Variant: an element right under the document node is its own parent.
ParentOrSelf(rem, sel) ==
    { IF parent[n] = DocumentNode THEN n ELSE parent[n] :
          n \in { m \in sel : m \notin rem } }

\* Selection.Parent(): the parents that are elements, each once
Parent(rem, sel) ==
    { parent[n] : n \in { m \in sel : m \notin rem /\ parent[m] # DocumentNode } }

\* Selection.Remove(): every element of the selection is cut from its parent
Remove(rem, sel) == rem \cup sel

\* Variant: one Parent() only, doc.Find(sel).Parent().Remove()
RemoveParents(rem, suffix) ==
    Remove(rem, Parent(rem, FindDataTextSuffix(rem, suffix)))

\* doc.Find(sel).Parent().Parent().Remove()
RemoveGrandParents(rem, suffix) ==
    Remove(rem, Parent(rem, Parent(rem, FindDataTextSuffix(rem, suffix))))

\* The text nodes of the elements from position m on that lie under n, in
\* document order.
RECURSIVE TextFrom(_, _, _)
TextFrom(rem, n, m) ==
    IF m > Len(parent) THEN ""
    ELSE (IF InSubtree(rem, m, n) THEN ownText[m] ELSE "")
             \o TextFrom(rem, n, m + 1)

\* Selection.Text() of the single element n
Text(rem, n) == TextFrom(rem, n, n)

\* Variant: a line feed is written after each block's text.
WriteTextWithSeparator(res, rem, n) == res \o Text(rem, n) \o "\n"

\* The callback of Each on one element: result.WriteString(s.Text())
WriteText(res, rem, n) == res \o Text(rem, n)

\* doc.Find(".releases").Each(...) from position m on, in document order
RECURSIVE EachFrom(_, _, _)
EachFrom(res, rem, m) ==
    IF m > Len(parent) THEN res
    ELSE EachFrom(IF m \in FindReleases(rem) THEN WriteText(res, rem, m) ELSE res,
                  rem, m + 1)

\* The elements whose text nodes Selection.Text() of n reads from position m
\* on, in document order.
RECURSIVE TextNodesFrom(_, _, _)
TextNodesFrom(rem, n, m) ==
    IF m > Len(parent) THEN << >>
    ELSE (IF InSubtree(rem, m, n) THEN << m >> ELSE << >>)
             \o TextNodesFrom(rem, n, m + 1)

\* The elements whose text nodes the Each of doc.Find(".releases") writes
\* from position m on, one run per release block.
RECURSIVE EachNodesFrom(_, _, _)
EachNodesFrom(acc, rem, m) ==
    IF m > Len(parent) THEN acc
    ELSE EachNodesFrom(IF m \in FindReleases(rem)
                           THEN acc \o TextNodesFrom(rem, m, m) ELSE acc,
                       rem, m + 1)

---------------------------------------------------------------------------
(* getGkeReleaseNotes from the parsed document on *)

releaseNotesUrl == "https://docs.cloud.google.com/kubernetes-engine/docs/release-notes"

\* getGkeReleaseNotes has fetched the page of the document and parsed it.
ToolParsedNotes ==
    /\ tool = "gke"
    /\ toolArg = ""
    /\ fetched = [ command |-> << "lynx", "--source", releaseNotesUrl >>,
                   out     |-> [ parent |-> parent, dataText |-> dataText,
                                 classes |-> classes, ownText |-> ownText ],
                   err     |-> "nil" ]
    /\ parseErr = "nil"
    /\ toolPc = "core"
    /\ toolErr = "nil"
    /\ toolContent = << >>

\* keepOnlyChanges is not running.
ChangelogIdle ==
    /\ changelog = ""
    /\ lines = << >>
    /\ idx = 1
    /\ hasMetTheFirstVersionHeading = FALSE
    /\ isInIgnoredSection = FALSE
    /\ result = ""
    /\ emitted = << >>
    /\ pc = "idle"

InitNotes ==
    /\ ChangelogIdle
    /\ CallsIdle
    /\ \E d \in Docs :
           /\ parent = d.parent
           /\ dataText = d.dataText
           /\ classes = d.classes
    /\ ownText = [n \in DOMAIN parent |-> Token(n)]
    /\ ToolParsedNotes
    /\ removed = {}
    /\ notes = ""
    /\ written = << >>
    /\ notesPc = "parsed"

\* doc.Find("[data-text$=\"Version updates\"]").Parent().Parent().Remove()
RemoveVersionUpdates ==
    /\ notesPc = "parsed"
    /\ removed' = RemoveGrandParents(removed, "Version updates")
    /\ notesPc' = "versionRemoved"
    /\ UNCHANGED << changelogVars, calls, toolVars, docVars, notes, written >>

\* doc.Find("[data-text$=\"Security updates\"]").Parent().Parent().Remove()
RemoveSecurityUpdates ==
    /\ notesPc = "versionRemoved"
    /\ removed' = RemoveGrandParents(removed, "Security updates")
    /\ notesPc' = "securityRemoved"
    /\ UNCHANGED << changelogVars, calls, toolVars, docVars, notes, written >>

\* doc.Find(".releases").Each(func ... result.WriteString(s.Text()))
WriteReleases ==
    /\ notesPc = "securityRemoved"
    /\ notes' = EachFrom(notes, removed, 1)
    /\ written' = EachNodesFrom(written, removed, 1)
    /\ notesPc' = "written"
    /\ UNCHANGED << changelogVars, calls, toolVars, docVars, removed >>

\* return &mcp.CallToolResult{... Text: result.String() ...}, nil, nil
ReturnNotes ==
    /\ notesPc = "written"
    /\ notesPc' = "done"
    /\ toolContent' = << notes >>
    /\ toolPc' = "returned"
    /\ UNCHANGED << calls, changelogVars, docVars, removed, notes, written,
                    tool, toolArg, fetched, parseErr, toolErr >>

NextNotes ==
    RemoveVersionUpdates \/ RemoveSecurityUpdates \/ WriteReleases \/ ReturnNotes

SpecNotes == InitNotes /\ [][NextNotes]_vars

\* The text nodes of real pages repeat and are often empty: the documents
\* of ScenarioDocs with every filling of their text nodes from Texts.
Texts == { "", "a", "b" }

InitNotesTexts ==
    /\ ChangelogIdle
    /\ CallsIdle
    /\ \E d \in ScenarioDocs :
           /\ parent = d.parent
           /\ dataText = d.dataText
           /\ classes = d.classes
    /\ ownText \in [DOMAIN parent -> Texts]
    /\ ToolParsedNotes
    /\ removed = {}
    /\ notes = ""
    /\ written = << >>
    /\ notesPc = "parsed"

SpecNotesTexts == InitNotesTexts /\ [][NextNotes]_vars

---------------------------------------------------------------------------
(* Concurrent calls of keepOnlyChanges *)

\* Two callers, each with an argument of its own: a one-line changelog or
\* one of Scenarios.
Callers == { 1, 2 }

CallInputs == { JoinLines(ls) : ls \in [1..1 -> LinePool] } \cup Scenarios

\* The locals of a call on text when it enters the loop (lines 79-82).
NewCall(text) ==
    [ changelog                    |-> text,
      lines                        |-> SplitLines(text),
      idx                          |-> 1,
      hasMetTheFirstVersionHeading |-> FALSE,
      isInIgnoredSection           |-> FALSE,
      result                       |-> "",
      pc                           |-> "loop" ]

InitCalls ==
    /\ ChangelogIdle
    /\ NotesIdle
    /\ ToolsIdle
    /\ calls \in [Callers -> { NewCall(text) : text \in CallInputs }]

\* Variant: the two flags are package-level variables, held here in the
\* record of caller 1, that every call reads and writes.
ProcessLineOfSharedFlags(c) ==
    /\ calls[c].pc = "loop"
    /\ calls[c].idx <= Len(calls[c].lines)
    /\ LET line   == calls[c].lines[calls[c].idx]
           shared == calls[1]
           met    == MetAfter(shared.hasMetTheFirstVersionHeading, line)
           w      == WritesLine(shared.hasMetTheFirstVersionHeading,
                                shared.isInIgnoredSection, line)
           ign    == IF met THEN IgnoredAfter(shared.isInIgnoredSection, line)
                     ELSE shared.isInIgnoredSection
           res    == IF w THEN WriteLine(calls[c].result, line) ELSE calls[c].result
       IN  calls' = [ [ calls EXCEPT ![c].result = res,
                                     ![c].idx = calls[c].idx + 1 ]
                          EXCEPT ![1].hasMetTheFirstVersionHeading = met,
                                 ![1].isInIgnoredSection = ign ]
    /\ UNCHANGED << changelogVars, notesVars, toolVars >>

\* One iteration of the range loop in the call of caller c: it reads the
\* package-level regexp and prefix list and its own locals, and writes its
\* own locals.
ProcessLineOf(c) ==
    /\ calls[c].pc = "loop"
    /\ calls[c].idx <= Len(calls[c].lines)
    /\ LET self == calls[c]
           line == self.lines[self.idx]
           met  == MetAfter(self.hasMetTheFirstVersionHeading, line)
           w    == WritesLine(self.hasMetTheFirstVersionHeading,
                              self.isInIgnoredSection, line)
           ign  == IF met THEN IgnoredAfter(self.isInIgnoredSection, line)
                   ELSE self.isInIgnoredSection
           res  == IF w THEN WriteLine(self.result, line) ELSE self.result
       IN  calls' = [ calls EXCEPT ![c].hasMetTheFirstVersionHeading = met,
                                   ![c].isInIgnoredSection = ign,
                                   ![c].result = res,
                                   ![c].idx = self.idx + 1 ]
    /\ UNCHANGED << changelogVars, notesVars, toolVars >>

\* "return result.String()" in the call of caller c.
ReturnOf(c) ==
    /\ calls[c].pc = "loop"
    /\ calls[c].idx > Len(calls[c].lines)
    /\ calls' = [ calls EXCEPT ![c].pc = "done" ]
    /\ UNCHANGED << changelogVars, notesVars, toolVars >>

NextCalls == \E c \in Callers : ProcessLineOf(c) \/ ReturnOf(c)

SpecCalls == InitCalls /\ [][NextCalls]_vars

---------------------------------------------------------------------------
(* The tool handlers, from the call on *)

\* The values of args.KubernetesMinorVersion tried: a minor version, bare
\* and inside white space, and what is none.
VersionArgs == { "1.33", " 1.33\n", "1.33.1", "v1.33", "1.", "" }

\* What the commands print, whole or as far as they got: for curl one of
\* Changelogs; for lynx a page, given as the document it parses to, one of
\* Docs with its text nodes.
FetchedTexts == Changelogs

FetchedPages ==
    { [ parent   |-> d.parent,
        dataText |-> d.dataText,
        classes  |-> d.classes,
        ownText  |-> [n \in DOMAIN d.parent |-> Token(n)] ] : d \in Docs }

\* The errors tried, "nil" for none.
CurlErrors == { "nil", "exit status 6" }
LynxErrors == { "nil", "exit status 1" }
ParseErrors == { "nil", "unexpected EOF" }

InitTools ==
    /\ ChangelogIdle
    /\ NotesIdle
    /\ CallsIdle
    /\ tool \in { "k8s", "gke" }
    /\ toolArg \in IF tool = "k8s" THEN VersionArgs ELSE { "" }
    /\ fetched = NoFetch
    /\ parseErr = "nil"
    /\ toolPc = "called"
    /\ toolErr = "nil"
    /\ toolContent = << >>

\* Variant: no error is ever seen.
NeverFailed(err) == FALSE

\* "if err != nil"
Failed(err) == err # "nil"

\* version := strings.TrimSpace(args.KubernetesMinorVersion)
version == TrimSpace(toolArg)

changelogUrl ==
    "https://raw.githubusercontent.com/kubernetes/kubernetes/refs/heads/master/CHANGELOG/CHANGELOG-"
        \o version \o ".md"

\* getK8sChangelog, lines 51-54: the argument is trimmed and matched.
ValidateVersion ==
    /\ tool = "k8s"
    /\ toolPc = "called"
    /\ IF ~kubernetesMinorVersionRegexp(version)
       THEN /\ toolErr' = "invalid kubernetes minor version: " \o version
            /\ toolPc' = "returned"
       ELSE /\ toolPc' = "fetch"
            /\ UNCHANGED toolErr
    /\ UNCHANGED << changelogVars, notesVars, calls, tool, toolArg, fetched,
                    parseErr, toolContent >>

\* getK8sChangelog, lines 56-68: curl is run; on an error the handler
\* returns it, otherwise keepOnlyChanges is called on all curl has printed.
FetchChangelog ==
    /\ tool = "k8s"
    /\ toolPc = "fetch"
    /\ \E out \in FetchedTexts, err \in CurlErrors :
           /\ fetched' = [ command |-> << "curl", changelogUrl >>,
                           out |-> out, err |-> err ]
           /\ IF Failed(err)
              THEN /\ toolErr' = err
                   /\ toolPc' = "returned"
                   /\ UNCHANGED changelogVars
              ELSE /\ toolPc' = "core"
                   /\ changelog' = out
                   /\ lines' = SplitLines(out)
                   /\ idx' = 1
                   /\ hasMetTheFirstVersionHeading' = FALSE
                   /\ isInIgnoredSection' = FALSE
                   /\ result' = ""
                   /\ emitted' = << >>
                   /\ pc' = "loop"
                   /\ UNCHANGED toolErr
    /\ UNCHANGED << notesVars, calls, tool, toolArg, parseErr, toolContent >>

\* getK8sChangelog, lines 66-70: what keepOnlyChanges returned is the result.
ReturnChangelog ==
    /\ tool = "k8s"
    /\ toolPc = "core"
    /\ pc = "done"
    /\ toolContent' = << result >>
    /\ toolPc' = "returned"
    /\ UNCHANGED << changelogVars, notesVars, calls, tool, toolArg, fetched,
                    parseErr, toolErr >>

\* getGkeReleaseNotes, lines 46-52: lynx is run; on an error the handler
\* returns it.
FetchReleaseNotes ==
    /\ tool = "gke"
    /\ toolPc = "called"
    /\ \E out \in FetchedPages, err \in LynxErrors :
           /\ fetched' = [ command |-> << "lynx", "--source", releaseNotesUrl >>,
                           out |-> out, err |-> err ]
           /\ IF Failed(err)
              THEN toolErr' = err /\ toolPc' = "returned"
              ELSE toolPc' = "parse" /\ UNCHANGED toolErr
    /\ UNCHANGED << changelogVars, notesVars, calls, tool, toolArg, parseErr,
                    toolContent >>

\* getGkeReleaseNotes, lines 54-61: the page is parsed; on an error the
\* handler returns it, otherwise doc is the document of the page.
ParseReleaseNotes ==
    /\ tool = "gke"
    /\ toolPc = "parse"
    /\ \E err \in ParseErrors :
           /\ parseErr' = err
           /\ IF Failed(err)
              THEN /\ toolErr' = err
                   /\ toolPc' = "returned"
                   /\ UNCHANGED notesVars
              ELSE /\ toolPc' = "core"
                   /\ parent' = fetched.out.parent
                   /\ dataText' = fetched.out.dataText
                   /\ classes' = fetched.out.classes
                   /\ ownText' = fetched.out.ownText
                   /\ removed' = {}
                   /\ notes' = ""
                   /\ written' = << >>
                   /\ notesPc' = "parsed"
                   /\ UNCHANGED toolErr
    /\ UNCHANGED << changelogVars, calls, tool, toolArg, fetched, toolContent >>

NextTools ==
    \/ ValidateVersion \/ FetchChangelog \/ ProcessLine \/ Return \/ ReturnChangelog
    \/ FetchReleaseNotes \/ ParseReleaseNotes \/ RemoveVersionUpdates
    \/ RemoveSecurityUpdates \/ WriteReleases \/ ReturnNotes

SpecTools == InitTools /\ [][NextTools]_vars

---------------------------------------------------------------------------
(* Vocabulary of the properties *)

\* A line that starts with "## Dependencies" or with "## Downloads for".
HasIgnoredPrefix(line) ==
    HasPrefix(line, "## Dependencies") \/ HasPrefix(line, "## Downloads for")

\* A heading of the first or second level: "# ..." or "## ...".
IsUpperHeading(line) ==
    \/ Char(line, 1) = "#" /\ Char(line, 2) = " "
    \/ Char(line, 1) = "#" /\ Char(line, 2) = "#" /\ Char(line, 3) = " "

\* The position of the first line the regular expression matches, 0 if none.
FirstVersionIdx ==
    IF \E i \in 1..Len(lines) : changelogVersionLineRegexp(lines[i])
    THEN CHOOSE i \in 1..Len(lines) :
             /\ changelogVersionLineRegexp(lines[i])
             /\ \A j \in 1..(i - 1) : ~changelogVersionLineRegexp(lines[j])
    ELSE 0

\* Whether the line at position i has been written to the result.
WasEmitted(i) == \E k \in 1..Len(emitted) : emitted[k] = i

\* The lines of a text in which every line ends with a line feed.
OutputLines(text) ==
    LET s == SplitLines(text) IN SubSeq(s, 1, Len(s) - 1)

\* The lines at the given positions, each followed by a line feed.
RECURSIVE TextOf(_, _)
TextOf(ls, positions) ==
    IF positions = << >> THEN ""
    ELSE ls[Head(positions)] \o "\n" \o TextOf(ls, Tail(positions))

\* Whether sequence a is b with some elements left out (order kept).
RECURSIVE IsSubsequence(_, _)
IsSubsequence(a, b) ==
    IF a = << >> THEN TRUE
    ELSE IF b = << >> THEN FALSE
    ELSE IF Head(a) = Head(b) THEN IsSubsequence(Tail(a), Tail(b))
    ELSE IsSubsequence(a, Tail(b))

\* No line of the changelog starts with an ignored-subsection prefix.
NoIgnoredHeader == \A i \in 1..Len(lines) : ~HasIgnoredPrefix(lines[i])

\* The changelog from its line at position i to its end, as text.
TextFromLine(i) == JoinLines(SubSeq(lines, i, Len(lines)))

---------------------------------------------------------------------------
(* C1 *)

\* C1: when the changelog has a version-heading line, no line before the
\* first one is ever written, and once that line has been processed it is
\* the first line of the result (ignored-prefix lines before it change
\* nothing).
C1_NothingBeforeFirstHeading ==
    FirstVersionIdx # 0 =>
        /\ \A k \in 1..Len(emitted) : emitted[k] >= FirstVersionIdx
        /\ idx > FirstVersionIdx =>
              /\ emitted # << >>
              /\ emitted[1] = FirstVersionIdx
              /\ OutputLines(result)[1] = lines[FirstVersionIdx]
              /\ HasPrefix(result, lines[FirstVersionIdx] \o "\n")

\* A finished call whose first version heading comes after an
\* ignored-subsection header and another line.
C1_Witness ==
    /\ pc = "done"
    /\ FirstVersionIdx > 2
    /\ \E i \in 1..(FirstVersionIdx - 1) : HasIgnoredPrefix(lines[i])
    /\ emitted # << >>
    /\ emitted[1] = FirstVersionIdx

---------------------------------------------------------------------------
(* C2 *)

\* C2: a changelog without any version-heading line (the empty text
\* included) yields the empty string; the call runs to its return.
C2_NoHeadingGivesEmpty ==
    FirstVersionIdx = 0 =>
        /\ result = ""
        /\ emitted = << >>
        /\ pc = "done" => keepOnlyChanges(changelog) = ""

\* A finished call on a text of several lines, among them headings and an
\* ignored-subsection header, none of them a version heading.
C2_Witness ==
    /\ pc = "done"
    /\ FirstVersionIdx = 0
    /\ Len(lines) >= 3
    /\ \E i \in 1..Len(lines) : IsUpperHeading(lines[i])
    /\ \E i \in 1..Len(lines) : HasIgnoredPrefix(lines[i])
    /\ result = ""

---------------------------------------------------------------------------
(* C3 *)

\* C3: no line of the result starts with an ignored-subsection prefix; and
\* once the first version heading is met, a line with such a prefix is
\* not written and leaves the filter ignoring, whatever it was before.
C3_NoIgnoredHeaderInOutput ==
    /\ \A k \in 1..Len(emitted) : ~HasIgnoredPrefix(lines[emitted[k]])
    /\ LET out == OutputLines(result)
       IN  \A k \in 1..Len(out) : ~HasIgnoredPrefix(out[k])
    /\ (idx > 1 /\ hasMetTheFirstVersionHeading
            /\ HasIgnoredPrefix(lines[idx - 1])) =>
           /\ isInIgnoredSection
           /\ ~WasEmitted(idx - 1)

\* A finished call that met both kinds of ignored-subsection header after the
\* first version heading, the second of them while already ignoring.
C3_Witness ==
    /\ pc = "done"
    /\ FirstVersionIdx # 0
    /\ \E i, j \in (FirstVersionIdx + 1)..Len(lines) :
           /\ j = i + 1
           /\ HasPrefix(lines[i], "## Dependencies")
           /\ HasPrefix(lines[j], "## Downloads for")
    /\ result # ""

---------------------------------------------------------------------------
(* C4 *)

\* Between positions j and k (j excluded, k included) no line is a heading
\* of the first or second level.
NoUpperHeadingIn(j, k) == \A m \in (j + 1)..k : ~IsUpperHeading(lines[m])

\* C4: after an ignored-subsection header read past the first version
\* heading, no following line is written (third-level headings and list
\* lines included) as long as no first- or second-level heading has come;
\* the next line written after the header is such a heading.
C4_IgnoredUntilUpperHeading ==
    \A j \in 1..(idx - 1) :
        (FirstVersionIdx # 0 /\ j > FirstVersionIdx /\ HasIgnoredPrefix(lines[j])) =>
            /\ \A k \in (j + 1)..(idx - 1) :
                   NoUpperHeadingIn(j, k) => ~WasEmitted(k)
            /\ \A k \in (j + 1)..(idx - 1) :
                   (WasEmitted(k) /\ \A m \in (j + 1)..(k - 1) : ~WasEmitted(m))
                       => IsUpperHeading(lines[k])

\* A finished call that dropped a third-level heading inside an ignored
\* subsection and resumed writing at a later second-level heading.
C4_Witness ==
    /\ pc = "done"
    /\ FirstVersionIdx # 0
    /\ \E j, k, m \in 1..Len(lines) :
           /\ FirstVersionIdx < j /\ j < k /\ k < m
           /\ HasIgnoredPrefix(lines[j])
           /\ HasPrefix(lines[k], "###")
           /\ ~WasEmitted(k)
           /\ IsUpperHeading(lines[m])
           /\ WasEmitted(m)

---------------------------------------------------------------------------
(* C5 *)

\* C5: on a line read while ignoring, the prefix check comes first: an
\* ignored-subsection header keeps the filter ignoring and is dropped; a
\* first- or second-level heading that is no such header stops the ignoring
\* and is written in that same iteration.
C5_PrefixCheckBeforeExit ==
    [][ (pc = "loop" /\ idx <= Len(lines) /\ isInIgnoredSection) =>
           /\ HasIgnoredPrefix(lines[idx]) =>
                  (isInIgnoredSection' /\ result' = result)
           /\ (~HasIgnoredPrefix(lines[idx]) /\ IsUpperHeading(lines[idx])) =>
                  /\ ~isInIgnoredSection'
                  /\ result' = result \o lines[idx] \o "\n"
                  /\ emitted' = Append(emitted, idx)
      ]_vars

\* A finished call with two ignored-subsection headers in a row, both
\* dropped, and the second-level heading after them written.
C5_Witness ==
    /\ pc = "done"
    /\ \E j \in 2..(Len(lines) - 2) :
           /\ FirstVersionIdx # 0 /\ FirstVersionIdx < j
           /\ HasIgnoredPrefix(lines[j]) /\ ~WasEmitted(j)
           /\ HasIgnoredPrefix(lines[j + 1]) /\ ~WasEmitted(j + 1)
           /\ IsUpperHeading(lines[j + 2]) /\ ~HasIgnoredPrefix(lines[j + 2])
           /\ WasEmitted(j + 2)

---------------------------------------------------------------------------
(* C6 *)

\* C6: the result is the written lines, each once and whole with its line
\* feed, at strictly increasing positions of the input; so the lines of the
\* result are a subsequence of the lines of the input.
C6_OutputIsSubsequence ==
    /\ \A k \in 1..Len(emitted) : emitted[k] \in 1..Len(lines)
    /\ \A k \in 1..(Len(emitted) - 1) : emitted[k] < emitted[k + 1]
    /\ result = TextOf(lines, emitted)
    /\ LET out == OutputLines(result)
       IN  /\ out = [k \in 1..Len(emitted) |-> lines[emitted[k]]]
           /\ IsSubsequence(out, SplitLines(changelog))

\* A finished call that wrote some lines and dropped others, before and
\* between the written ones.
C6_Witness ==
    /\ pc = "done"
    /\ Len(emitted) >= 2
    /\ emitted[1] > 1
    /\ \E k \in 1..(Len(emitted) - 1) : emitted[k + 1] > emitted[k] + 1

---------------------------------------------------------------------------
(* C7 *)

\* C7 as stated: without ignored-subsection headers the result is the text
\* from the first version-heading line to the end of the input, unchanged.
C7_Original ==
    (pc = "done" /\ FirstVersionIdx # 0 /\ NoIgnoredHeader) =>
        result = TextFromLine(FirstVersionIdx)

\* C7 as amended: without ignored-subsection headers the result is the text
\* from the first version-heading line to the end of the input followed by
\* one more line feed, whether or not the input ends with a line feed: the
\* lines are unchanged and each, the last one too, gets a line feed.
C7_SuffixPlusLineFeed ==
    (pc = "done" /\ FirstVersionIdx # 0 /\ NoIgnoredHeader) =>
        /\ result = TextFromLine(FirstVersionIdx) \o "\n"
        /\ OutputLines(result) = SubSeq(lines, FirstVersionIdx, Len(lines))

\* A finished call on a text without ignored-subsection headers that ends
\* with a line feed and has lines before its first version heading.
C7_Witness ==
    /\ pc = "done"
    /\ FirstVersionIdx > 1
    /\ NoIgnoredHeader
    /\ Len(lines) > FirstVersionIdx
    /\ lines[Len(lines)] = ""

---------------------------------------------------------------------------
(* C8 *)

\* The result holds a version-heading line.
ResultHasVersionHeading ==
    LET out == OutputLines(result)
    IN  \E k \in 1..Len(out) : changelogVersionLineRegexp(out[k])

\* C8 as stated: filtering the result again returns the result.
C8_Original ==
    (pc = "done" /\ ResultHasVersionHeading) =>
        keepOnlyChanges(result) = result

\* C8 as amended: the result of a call is keepOnlyChanges of its argument,
\* and filtering a result that holds a version heading again keeps every
\* line of it and returns it followed by one more line feed (the result ends
\* with a line feed, so its split ends with an empty line, written too).
C8_RefilterAddsLineFeed ==
    /\ pc = "done" => result = keepOnlyChanges(changelog)
    /\ (pc = "done" /\ ResultHasVersionHeading) =>
           LET again == keepOnlyChanges(result)
           IN  /\ again = result \o "\n"
               /\ OutputLines(again) = Append(OutputLines(result), "")

\* A finished call that dropped lines before the first version heading and
\* an ignored subsection, and wrote at least two lines.
C8_Witness ==
    /\ pc = "done"
    /\ ResultHasVersionHeading
    /\ FirstVersionIdx > 1
    /\ \E i \in 1..Len(lines) : i > FirstVersionIdx /\ HasIgnoredPrefix(lines[i])
    /\ Len(emitted) >= 2

---------------------------------------------------------------------------
(* C9 *)

\* Whether every position from i to j of s holds a digit.
AllDigits(s, i, j) == \A m \in i..j : IsDigit(Char(s, m))

\* Whether every position from i to j of s holds white space.
AllSpaces(s, i, j) == \A m \in i..j : Char(s, m) \in { " ", "\t" }

\* The shape ^#\s*v?\d+\.\d+\.\d+ : "#", white space, an optional "v", and
\* three dot-separated groups of digits.
LooseVersionShape(line) ==
    /\ Char(line, 1) = "#"
    /\ \E a, b, c \in 2..(Len(line) + 1) :
           \* a: where the first component starts; b, c: the two dots
           /\ a < b /\ b + 1 < c /\ c < Len(line)
           /\ \/ AllSpaces(line, 2, a - 1)
              \/ AllSpaces(line, 2, a - 2) /\ Char(line, a - 1) = "v"
           /\ AllDigits(line, a, b - 1)
           /\ Char(line, b) = "."
           /\ AllDigits(line, b + 1, c - 1)
           /\ Char(line, c) = "."
           /\ IsDigit(Char(line, c + 1))

\* The shape ^# v\d\.\d+\.\d+ : "# v", one digit, a dot, digits, a dot and a
\* digit.
StrictVersionShape(line) ==
    /\ SubSeq(line \o "     ", 1, 3) = "# v"
    /\ IsDigit(Char(line, 4))
    /\ Char(line, 5) = "."
    /\ \E c \in 7..(Len(line) - 1) :
           /\ AllDigits(line, 6, c - 1)
           /\ Char(line, c) = "."
           /\ IsDigit(Char(line, c + 1))

\* C9 as stated: the first version section is open exactly when a line of
\* the loose shape has been read.
C9_Original ==
    hasMetTheFirstVersionHeading <=>
        \E i \in 1..(idx - 1) : LooseVersionShape(lines[i])

\* C9 as amended: a line is recognised exactly when it has the strict shape
\* (one space, a mandatory "v", a one-digit first component), so the first
\* version section is open exactly when such a line has been read:
\* "# v1.2.3" opens it; "# v10.0.0", "# 1.2.3" and "#v1.2.3" do not.
C9_StrictShapeOnly ==
    /\ \A i \in 1..Len(lines) :
           changelogVersionLineRegexp(lines[i]) <=> StrictVersionShape(lines[i])
    /\ hasMetTheFirstVersionHeading <=>
           \E i \in 1..(idx - 1) : StrictVersionShape(lines[i])
    /\ \A i \in 1..(idx - 1) :
           (lines[i] \in { "# v10.0.0", "# 1.2.3", "#v1.2.3" }
                /\ \A j \in 1..i : lines[j] # "# v1.2.3")
               => ~WasEmitted(i)

\* A finished call that read the three other spellings without opening a
\* version section and then opened it at "# v1.2.3".
C9_Witness ==
    /\ pc = "done"
    /\ lines = << "# v10.0.0", "# 1.2.3", "#v1.2.3", "# v1.2.3", "- bar" >>
    /\ emitted = << 4, 5 >>

---------------------------------------------------------------------------
(* C10 *)

\* Whether text sub occurs in text s.
Contains(s, sub) ==
    \E i \in 1..(Len(s) - Len(sub) + 1) : SubSeq(s, i, i + Len(sub) - 1) = sub

\* The parent of the parent of element a in the document as parsed, when
\* both are elements; the document node otherwise.
GrandParentOf(a) ==
    IF parent[a] = DocumentNode THEN DocumentNode ELSE parent[parent[a]]

\* Whether n is g or lies under g in the document as parsed.
Under(n, g) == g # DocumentNode /\ IsAncestorOrSelf(parent, g, n)

\* Whether n lies in a subtree that has been deleted.
InDeletedSubtree(n) == \E g \in removed : Under(n, g)

\* C10: once the text is written, no element inside a deleted subtree has
\* its text in it, a release block or not: not under the parent-of-parent of
\* any "Version updates" anchor, nor under any element the two rules have
\* removed; and every element of a release block outside all deleted
\* subtrees has.
C10_NoTextFromDeletedSubtree ==
    notesPc \in { "written", "done" } =>
        /\ \A a \in Nodes :
               HasSuffix(dataText[a], "Version updates") =>
                   \A n \in Nodes :
                       Under(n, GrandParentOf(a)) => ~Contains(notes, ownText[n])
        /\ \A a \in Nodes :
               (HasSuffix(dataText[a], "Security updates") /\ ~InDeletedSubtree(a)) =>
                   GrandParentOf(a) = DocumentNode
        /\ \A n \in Nodes :
               InDeletedSubtree(n) => ~Contains(notes, ownText[n])
        /\ \A n, r \in Nodes :
               ("releases" \in classes[r] /\ Under(n, r) /\ ~InDeletedSubtree(n))
                   => Contains(notes, ownText[n])

\* A finished call on a document with a release block that is the
\* parent-of-parent of an anchor and holds a second release block, and a
\* third release block outside it: only the third one's text is returned.
C10_Witness ==
    /\ notesPc = "done"
    /\ \E a, g, r1, r2 \in Nodes :
           /\ HasSuffix(dataText[a], "Version updates")
                 \/ HasSuffix(dataText[a], "Security updates")
           /\ g = GrandParentOf(a) /\ g \in removed
           /\ "releases" \in classes[g]
           /\ r1 # g /\ "releases" \in classes[r1] /\ Under(r1, g)
           /\ "releases" \in classes[r2] /\ ~InDeletedSubtree(r2)
           /\ notes = ownText[r2]

---------------------------------------------------------------------------
(* C11 *)

\* The text content of the subtree of g in the document as parsed.
RECURSIVE ParsedTextFrom(_, _)
ParsedTextFrom(g, m) ==
    IF m > Len(parent) THEN ""
    ELSE (IF Under(m, g) THEN ownText[m] ELSE "") \o ParsedTextFrom(g, m + 1)

\* The text nodes of the elements of seq, one after the other.
RECURSIVE TextOfNodes(_)
TextOfNodes(seq) ==
    IF seq = << >> THEN "" ELSE ownText[Head(seq)] \o TextOfNodes(Tail(seq))

\* C11 as stated, for the deleted subtrees that have text at all: the text
\* content of a deleted subtree is no substring of the text produced.
C11_Original ==
    notesPc \in { "written", "done" } =>
        \A g \in removed :
            ParsedTextFrom(g, 1) # "" => ~Contains(notes, ParsedTextFrom(g, 1))

\* C11: no text node of an element inside a deleted subtree is written:
\* the text produced is made, in the order written, of the text nodes of
\* elements outside every deleted subtree, whatever the texts are.
C11_OnlyRemainingTextWritten ==
    notesPc \in { "written", "done" } =>
        /\ \A k \in DOMAIN written : ~InDeletedSubtree(written[k])
        /\ notes = TextOfNodes(written)

\* A finished call that deleted a subtree with text and wrote text of a
\* release block that holds the deleted subtree: the same characters are in
\* both, none of them written from the deleted subtree.
C11_Witness ==
    /\ notesPc = "done"
    /\ \E g \in removed, r \in Nodes :
           /\ r # g /\ Under(g, r) /\ "releases" \in classes[r]
           /\ ParsedTextFrom(g, 1) # ""
           /\ Contains(notes, ParsedTextFrom(g, 1))
           /\ written # << >>

---------------------------------------------------------------------------
(* C12 *)

\* An anchor of the rule of suffix: an element whose data-text ends with it.
IsAnchor(a, suffix) == dataText[a] # "" /\ HasSuffix(dataText[a], suffix)

\* An anchor of either rule with fewer than two element ancestors.
IsShallowAnchor(a) ==
    /\ IsAnchor(a, "Version updates") \/ IsAnchor(a, "Security updates")
    /\ GrandParentOf(a) = DocumentNode

\* The parents-of-parents of the anchors of suffix that have one.
GrandParentsOfAnchors(suffix) ==
    { GrandParentOf(a) : a \in { b \in Nodes : IsAnchor(b, suffix) } }
        \ { DocumentNode }

\* Whether the call is past the first rule, and past the second.
PastVersionRule == notesPc \in { "versionRemoved", "securityRemoved", "written", "done" }
PastSecurityRule == notesPc \in { "securityRemoved", "written", "done" }

\* C12: in a document with an anchor that has fewer than two element
\* ancestors, only parents-of-parents of anchors that have one are ever
\* deleted, the call goes on to its next statement, and the deeper anchors
\* are served: those of the first rule all, those of the second rule when
\* the first rule has left them in the document.
C12_ShallowAnchorSkipped ==
    (\E a \in Nodes : IsShallowAnchor(a)) =>
        /\ removed \subseteq GrandParentsOfAnchors("Version updates")
                                \cup GrandParentsOfAnchors("Security updates")
        /\ notesPc # "done" => ENABLED NextNotes
        /\ PastVersionRule =>
               GrandParentsOfAnchors("Version updates") \subseteq removed
        /\ PastSecurityRule =>
               \A c \in Nodes :
                   ( /\ IsAnchor(c, "Security updates")
                     /\ GrandParentOf(c) # DocumentNode
                     /\ \A g \in GrandParentsOfAnchors("Version updates") : ~Under(c, g) )
                       => GrandParentOf(c) \in removed

\* A finished call on a document with a "Version updates" anchor right under
\* the root, whose parent (the root) is kept, a deeper anchor of the same
\* rule and a deep "Security updates" anchor, both served.
C12_Witness ==
    /\ notesPc = "done"
    /\ \E a, b, c \in Nodes :
           /\ IsAnchor(a, "Version updates") /\ IsShallowAnchor(a)
           /\ parent[a] # DocumentNode /\ parent[a] \notin removed
           /\ IsAnchor(b, "Version updates") /\ GrandParentOf(b) \in removed
           /\ IsAnchor(c, "Security updates") /\ GrandParentOf(c) \in removed
           /\ GrandParentOf(b) # GrandParentOf(c)
    /\ notes = ownText[1] \o ownText[2]

---------------------------------------------------------------------------
(* C13 *)

\* A release block that is left in the document.
IsRemainingRelease(r) == "releases" \in classes[r] /\ ~InDeletedSubtree(r)

\* The full text of r: the text nodes of the elements from position m on
\* that lie under r and are left in the document, in document order.
RECURSIVE FullTextFrom(_, _)
FullTextFrom(r, m) ==
    IF m > Len(parent) THEN ""
    ELSE (IF Under(m, r) /\ ~InDeletedSubtree(m) THEN ownText[m] ELSE "")
             \o FullTextFrom(r, m + 1)

\* The full texts of the remaining release blocks from position r on, in
\* document order, nothing between them.
RECURSIVE ReleaseTextsFrom(_)
ReleaseTextsFrom(r) ==
    IF r > Len(parent) THEN ""
    ELSE (IF IsRemainingRelease(r) THEN FullTextFrom(r, 1) ELSE "")
             \o ReleaseTextsFrom(r + 1)

\* C13: the text written after both rules is the full texts of the
\* remaining release blocks in document order with nothing between them; it
\* is empty when no release block remains; and the call then returns it.
C13_ConcatenationOfRemainingReleases ==
    /\ notesPc \in { "written", "done" } =>
           /\ notes = ReleaseTextsFrom(1)
           /\ (\A r \in Nodes : ~IsRemainingRelease(r)) => notes = ""
    /\ notesPc = "written" => ENABLED ReturnNotes

\* A finished call that returns the texts of two remaining release blocks,
\* one inside the other, and nothing of a third that a rule deleted.
C13_Witness ==
    /\ notesPc = "done"
    /\ \E r1, r2, r3 \in Nodes :
           /\ r1 < r2 /\ IsRemainingRelease(r1) /\ IsRemainingRelease(r2)
           /\ Under(r2, r1)
           /\ "releases" \in classes[r3] /\ InDeletedSubtree(r3)
           /\ notes = FullTextFrom(r1, 1) \o FullTextFrom(r2, 1)
           /\ ~Contains(notes, ownText[r3])

---------------------------------------------------------------------------
(* C14 *)

\* C14: every step of a call either processes the line at the loop position
\* and moves to the next one, or returns once the position is past the last
\* line; a call that has returned has been over every line; and every call
\* returns, in whatever state the last line leaves it.
C14_Total ==
    /\ [][ \/ idx <= Len(lines) /\ idx' = idx + 1 /\ pc' = "loop"
           \/ idx = Len(lines) + 1 /\ idx' = idx /\ pc' = "done" /\ result' = result ]_vars
    /\ [](pc = "done" => idx = Len(lines) + 1)
    /\ <>(pc = "done")

\* A call that has returned after three lines with the ignoring flag still
\* set and something written.
C14_Witness ==
    /\ pc = "done"
    /\ Len(lines) = 3 /\ idx = Len(lines) + 1
    /\ hasMetTheFirstVersionHeading /\ isInIgnoredSection
    /\ result # ""

---------------------------------------------------------------------------
(* C15 *)

\* The first n of the lines ls.
FirstLines(ls, n) == SubSeq(ls, 1, n)

\* C15: under every interleaving, what a call has written after its first
\* lines is what keepOnlyChanges alone writes for those lines, and what it
\* returns is what keepOnlyChanges alone returns for its argument; and a
\* step of one call leaves the locals of the others as they are.
C15_CallsDoNotInterfere ==
    /\ [](\A c \in DOMAIN calls :
             /\ calls[c].result
                    = RangeLoop(FirstLines(calls[c].lines, calls[c].idx - 1),
                                1, FALSE, FALSE, "")
             /\ calls[c].pc = "done" =>
                    calls[c].result = keepOnlyChanges(calls[c].changelog))
    /\ [][\A c, d \in DOMAIN calls :
             (calls'[c] # calls[c] /\ d # c) => calls'[d] = calls[d]]_vars

\* Two calls on different arguments, both in the middle of their lines, one
\* ignoring a subsection after its version heading and the other still
\* before its first version heading.
C15_Witness ==
    /\ calls # << >>
    /\ calls[1].changelog # calls[2].changelog
    /\ \A c \in Callers :
           calls[c].pc = "loop" /\ 2 < calls[c].idx /\ calls[c].idx <= Len(calls[c].lines)
    /\ calls[1].isInIgnoredSection
    /\ ~calls[2].hasMetTheFirstVersionHeading

---------------------------------------------------------------------------
(* C16 *)

\* The state machine of the design: what it does with one line in a state,
\* as the state it goes to and whether it emits the line. A line that
\* makes it leave SEEKING_FIRST_VERSION or IGNORING is evaluated again
\* under the rules of EMITTING.
RECURSIVE MachineStep(_, _)
MachineStep(state, line) ==
    IF state = "SEEKING_FIRST_VERSION" THEN
        IF StrictVersionShape(line) THEN MachineStep("EMITTING", line)
        ELSE [ state |-> "SEEKING_FIRST_VERSION", emit |-> FALSE ]
    ELSE IF HasIgnoredPrefix(line) THEN [ state |-> "IGNORING", emit |-> FALSE ]
    ELSE IF state = "IGNORING" THEN
        IF IsUpperHeading(line) THEN MachineStep("EMITTING", line)
        ELSE [ state |-> "IGNORING", emit |-> FALSE ]
    ELSE [ state |-> "EMITTING", emit |-> TRUE ]

\* The state of the machine that stands for the two flags.
FlagState(met, ign) ==
    IF ~met THEN "SEEKING_FIRST_VERSION"
    ELSE IF ign THEN "IGNORING" ELSE "EMITTING"

\* The lines written so far, in the order written.
EmittedLines == [k \in 1..Len(emitted) |-> lines[emitted[k]]]

\* C16: a call starts in the flags that stand for SEEKING_FIRST_VERSION;
\* on every line the flags go where the machine goes from the state they
\* stand for, and the line is written, with a line feed, exactly when the
\* machine emits it; the first scenario of the design gives its five lines.
C16_FlagsRefineMachine ==
    /\ [](pc = "loop" /\ idx = 1 =>
             FlagState(hasMetTheFirstVersionHeading, isInIgnoredSection)
                 = "SEEKING_FIRST_VERSION")
    /\ [][(pc = "loop" /\ idx <= Len(lines)) =>
             LET line == lines[idx]
                 step == MachineStep(FlagState(hasMetTheFirstVersionHeading,
                                               isInIgnoredSection), line)
             IN  /\ FlagState(hasMetTheFirstVersionHeading', isInIgnoredSection')
                        = step.state
                 /\ emitted' = IF step.emit THEN Append(emitted, idx) ELSE emitted
                 /\ result' = IF step.emit THEN result \o line \o "\n" ELSE result]_vars
    /\ []((pc = "done" /\ lines = << "intro", "# v1.2.3", "## Dependencies", "bump foo",
                                     "## Changes", "fix bar", "# v1.2.2", "fix baz" >>)
             => EmittedLines = << "# v1.2.3", "## Changes", "fix bar", "# v1.2.2",
                                  "fix baz" >>)

\* The first scenario of the design, returned: the machine has left
\* SEEKING_FIRST_VERSION on line 2, IGNORING on line 5, and five lines are
\* written.
C16_Witness ==
    /\ pc = "done"
    /\ lines = << "intro", "# v1.2.3", "## Dependencies", "bump foo",
                  "## Changes", "fix bar", "# v1.2.2", "fix baz" >>
    /\ emitted = << 2, 5, 6, 7, 8 >>
    /\ OutputLines(result) = EmittedLines

---------------------------------------------------------------------------
(* C17 *)

\* Whether n lies in a subtree that the "Version updates" rule deletes.
InVersionDeletedSubtree(n) ==
    \E g \in GrandParentsOfAnchors("Version updates") : Under(n, g)

\* The parents-of-parents of the "Security updates" anchors that the
\* "Version updates" rule leaves in the document.
GrandParentsOfLeftSecurityAnchors ==
    { GrandParentOf(s) :
          s \in { b \in Nodes : IsAnchor(b, "Security updates")
                                   /\ ~InVersionDeletedSubtree(b) } }
        \ { DocumentNode }

\* C17: when the first rule is done, the parent-of-parent of every "Version
\* updates" anchor is deleted and nothing else; the second rule then deletes
\* the parents-of-parents of the "Security updates" anchors left in the
\* document and nothing else, so an anchor inside a subtree the first rule
\* deleted has its parent-of-parent deleted only if another anchor asks for it.
C17_RulesInSequence ==
    /\ notesPc = "versionRemoved" =>
           removed = GrandParentsOfAnchors("Version updates")
    /\ PastSecurityRule =>
           removed = GrandParentsOfAnchors("Version updates")
                         \cup GrandParentsOfLeftSecurityAnchors

\* A finished call on a document where the first rule deleted a "Security
\* updates" anchor, with a second one inside it: the parent-of-parent of the
\* first lies outside the deleted subtree, that of the second inside, and
\* neither is deleted; the release block around them is returned.
C17_Witness ==
    /\ notesPc = "done"
    /\ \E s1, s2 \in Nodes :
           /\ IsAnchor(s1, "Security updates") /\ s1 \in removed
           /\ GrandParentOf(s1) # DocumentNode
           /\ ~InDeletedSubtree(GrandParentOf(s1))
           /\ IsAnchor(s2, "Security updates") /\ s2 # s1 /\ Under(s2, s1)
           /\ GrandParentOf(s2) # s1 /\ Under(GrandParentOf(s2), s1)
           /\ GrandParentOf(s2) \notin removed
           /\ \E r \in Nodes :
                  IsRemainingRelease(r) /\ Under(s1, r) /\ notes = ownText[r]

---------------------------------------------------------------------------
(* C18 *)

\* The two rules in the other order, each run to its end before the next:
\* what they detach from the document as parsed, and the text then written.
ReversedRemoved ==
    RemoveGrandParents(RemoveGrandParents({}, "Security updates"), "Version updates")

ReversedNotes == EachFrom("", ReversedRemoved, 1)

\* The elements left in the document once those of rem are detached.
Remaining(rem) == { n \in Nodes : \A g \in rem : ~Under(n, g) }

\* Whether every anchor of one rule that lies in a subtree the other rule
\* deletes has its parent-of-parent, if any, in that subtree too.
AnchorsDeletedWithGrandParents(suffix, other) ==
    \A a \in Nodes, g \in GrandParentsOfAnchors(other) :
        (IsAnchor(a, suffix) /\ Under(a, g) /\ GrandParentOf(a) # DocumentNode)
            => Under(GrandParentOf(a), g)

\* C18 as stated: for every document the other order leaves the same
\* elements and writes the same text.
C18_Original ==
    notesPc = "done" =>
        /\ Remaining(removed) = Remaining(ReversedRemoved)
        /\ notes = ReversedNotes

\* C18: the other order leaves the same elements, those outside the
\* subtrees of the parents-of-parents of all anchors, and writes the same
\* text, for every document in which an anchor inside a subtree that the
\* other rule deletes has its own parent-of-parent inside that subtree.
C18_OrderIndependentUnlessNestedAcross ==
    ( /\ notesPc = "done"
      /\ AnchorsDeletedWithGrandParents("Security updates", "Version updates")
      /\ AnchorsDeletedWithGrandParents("Version updates", "Security updates") )
        => /\ Remaining(removed) = Remaining(ReversedRemoved)
           /\ Remaining(removed)
                  = Remaining(GrandParentsOfAnchors("Version updates")
                                  \cup GrandParentsOfAnchors("Security updates"))
           /\ notes = ReversedNotes

\* A finished call on a document where a "Version updates" anchor and its
\* parent-of-parent lie under the parent-of-parent of a "Security updates"
\* anchor: the coded order detaches both, the other order only the outer
\* one, and both leave the same elements and return the same text.
C18_Witness ==
    /\ notesPc = "done"
    /\ AnchorsDeletedWithGrandParents("Security updates", "Version updates")
    /\ AnchorsDeletedWithGrandParents("Version updates", "Security updates")
    /\ \E v \in Nodes, g \in GrandParentsOfAnchors("Security updates") :
           IsAnchor(v, "Version updates") /\ Under(v, g) /\ GrandParentOf(v) \in removed
    /\ removed # ReversedRemoved
    /\ notes = ReversedNotes /\ notes # ""

---------------------------------------------------------------------------
(* C19 *)

\* C19: the flag is false when the call enters the loop; once true it stays
\* true; and a step makes it true only on a line that is a version heading,
\* the first one of the call.
C19_FlagSetAtMostOnce ==
    /\ [](pc = "loop" /\ idx = 1 => ~hasMetTheFirstVersionHeading)
    /\ [][hasMetTheFirstVersionHeading => hasMetTheFirstVersionHeading']_vars
    /\ [][(~hasMetTheFirstVersionHeading /\ hasMetTheFirstVersionHeading') =>
             /\ StrictVersionShape(lines[idx])
             /\ \A k \in 1..(idx - 1) : ~StrictVersionShape(lines[k])]_vars

\* A call past a version heading and, after it, a line that is none: the
\* flag is still set.
C19_Witness ==
    /\ pc = "loop"
    /\ hasMetTheFirstVersionHeading
    /\ idx > 2
    /\ \E k \in 1..(idx - 2) : StrictVersionShape(lines[k])
    /\ ~StrictVersionShape(lines[idx - 1])
    /\ HasIgnoredPrefix(lines[idx - 1])

---------------------------------------------------------------------------
(* C20 *)

\* Whether the command run, or the parse, ended with an error.
FetchFailed == fetched.err # "nil"
ParseFailed == parseErr # "nil"

\* Whether keepOnlyChanges, or the rules and the selection of
\* getGkeReleaseNotes, have been started.
CoreStarted == pc # "idle" \/ notesPc # "idle"

\* C20: once the command or the parse has ended with an error, the handler
\* has returned that error and a nil result, and neither keepOnlyChanges nor
\* the rules and the selection have been started, whatever the command had
\* printed; what they are started on is all that a command without error
\* has printed.
C20_FailureReturnsErrorOnly ==
    /\ FetchFailed =>
           /\ toolPc = "returned" /\ toolErr = fetched.err
           /\ toolContent = << >> /\ ~CoreStarted
    /\ ParseFailed =>
           /\ toolPc = "returned" /\ toolErr = parseErr
           /\ toolContent = << >> /\ ~CoreStarted
    /\ CoreStarted =>
           /\ ~FetchFailed /\ ~ParseFailed /\ toolErr = "nil"
           /\ tool = "k8s" => changelog = fetched.out
           /\ tool = "gke" =>
                  /\ parent = fetched.out.parent /\ dataText = fetched.out.dataText
                  /\ classes = fetched.out.classes /\ ownText = fetched.out.ownText

\* getK8sChangelog has returned the error of a curl that had printed a
\* changelog with a version section before it failed.
C20_Witness ==
    /\ tool = "k8s"
    /\ toolPc = "returned"
    /\ fetched.command # << >> /\ fetched.err = "exit status 6"
    /\ keepOnlyChanges(fetched.out) # ""
    /\ toolErr = "exit status 6"
    /\ toolContent = << >>
    /\ pc = "idle"

---------------------------------------------------------------------------
(* C21 *)

\* C21: every version heading read so far is written, whatever the flags
\* were when it was read; and right after a version heading the call is
\* past its first version heading and ignores nothing, so no ignored
\* subsection goes on into a version section.
C21_VersionHeadingsEmitted ==
    /\ \A i \in 1..(idx - 1) :
           (i <= Len(lines) /\ StrictVersionShape(lines[i])) => WasEmitted(i)
    /\ (1 < idx /\ idx <= Len(lines) + 1 /\ StrictVersionShape(lines[idx - 1])) =>
           hasMetTheFirstVersionHeading /\ ~isInIgnoredSection

\* A call that has just read a version heading right after the header of an
\* ignored subsection, itself after the first version heading: the heading
\* is written and the ignoring flag is cleared.
C21_Witness ==
    /\ pc = "loop"
    /\ idx = 4
    /\ StrictVersionShape(lines[1])
    /\ HasIgnoredPrefix(lines[2])
    /\ StrictVersionShape(lines[3])
    /\ emitted = << 1, 3 >>
    /\ ~isInIgnoredSection

---------------------------------------------------------------------------
(* C22 *)

\* Whether t is s without the white space at its two ends.
IsTrimmed(s, t) ==
    LET blank == { " ", "\t", "\n", "\r" }
    IN  \E i \in 1..(Len(s) + 1) :
            /\ i + Len(t) - 1 <= Len(s)
            /\ SubSeq(s, i, i + Len(t) - 1) = t
            /\ \A m \in 1..(i - 1) : Char(s, m) \in blank
            /\ \A m \in (i + Len(t))..Len(s) : Char(s, m) \in blank
            /\ t # "" => Char(t, 1) \notin blank /\ Char(t, Len(t)) \notin blank

\* Digits, a dot, digits, and nothing else.
IsMinorVersion(t) ==
    \E d \in 2..(Len(t) - 1) :
        /\ AllDigits(t, 1, d - 1)
        /\ Char(t, d) = "."
        /\ AllDigits(t, d + 1, Len(t))

\* The argument of the call without the white space at its two ends.
TrimmedArg ==
    CHOOSE t \in { SubSeq(toolArg, i, j) :
                      i \in 1..(Len(toolArg) + 1), j \in 0..Len(toolArg) } :
        IsTrimmed(toolArg, t)

\* C22: a call of getK8sChangelog whose trimmed argument is no minor
\* version never runs a command and never starts keepOnlyChanges, and once
\* it has returned it has returned the error about the trimmed argument and
\* a nil result; a call whose trimmed argument is one is not refused; and a
\* command is run, and keepOnlyChanges started, only by a call that is past
\* its validation, with the trimmed argument in the address.
C22_ValidatesBeforeFetching ==
    tool = "k8s" =>
        LET t     == TrimmedArg
            valid == IsMinorVersion(t)
        IN  /\ ~valid =>
                   /\ fetched.command = << >> /\ pc = "idle"
                   /\ toolPc \in { "called", "returned" }
                   /\ toolPc = "returned" =>
                          /\ toolContent = << >>
                          /\ toolErr = "invalid kubernetes minor version: " \o t
            /\ valid => ~HasPrefix(toolErr, "invalid kubernetes minor version")
            /\ toolPc \in { "called", "fetch" } =>
                   fetched.command = << >> /\ pc = "idle"
            /\ fetched.command # << >> =>
                   fetched.command
                       = << "curl",
                            "https://raw.githubusercontent.com/kubernetes/kubernetes/refs/heads/master/CHANGELOG/CHANGELOG-"
                                \o t \o ".md" >>

\* A call with a patch version for argument has returned the error and has
\* run no command.
C22_Witness ==
    /\ tool = "k8s"
    /\ toolArg = "1.33.1"
    /\ toolPc = "returned"
    /\ toolErr = "invalid kubernetes minor version: 1.33.1"
    /\ toolContent = << >>
    /\ fetched.command = << >>
    /\ pc = "idle"

---------------------------------------------------------------------------
(* C23 *)

\* How many times element n is in seq.
TimesIn(seq, n) == Cardinality({ k \in DOMAIN seq : seq[k] = n })

\* The remaining release blocks that element n lies in.
RemainingReleasesAround(n) == { r \in Nodes : IsRemainingRelease(r) /\ Under(n, r) }

\* The sum of the lengths of the full texts of the remaining release blocks
\* from position r on.
RECURSIVE ReleaseTextLengthsFrom(_)
ReleaseTextLengthsFrom(r) ==
    IF r > Len(parent) THEN 0
    ELSE (IF IsRemainingRelease(r) THEN Len(FullTextFrom(r, 1)) ELSE 0)
             + ReleaseTextLengthsFrom(r + 1)

\* C23: the text node of an element left in the document is written once
\* for every remaining release block the element lies in, so twice when a
\* release block lies in another; that of a deleted element is not written;
\* and the length of the text is the sum of the lengths of the full texts of
\* the remaining release blocks.
C23_OncePerMatchingNode ==
    notesPc \in { "written", "done" } =>
        /\ \A n \in Nodes :
               TimesIn(written, n)
                   = IF InDeletedSubtree(n) THEN 0
                     ELSE Cardinality(RemainingReleasesAround(n))
        /\ Len(notes) = ReleaseTextLengthsFrom(1)

\* A finished call on a document with a remaining release block inside
\* another: the text node of the inner one is written twice, that of the
\* outer one once.
C23_Witness ==
    /\ notesPc = "done"
    /\ \E outer, inner \in Nodes :
           /\ outer # inner /\ Under(inner, outer)
           /\ IsRemainingRelease(outer) /\ IsRemainingRelease(inner)
           /\ TimesIn(written, inner) = 2
           /\ TimesIn(written, outer) = 1
           /\ Len(notes) = Len(FullTextFrom(outer, 1)) + Len(FullTextFrom(inner, 1))

===========================================================================
